---- MODULE Spec2Model ----
(***************************************************************************)
(* aldryn_forms/admin.py: the admin of the form submissions.               *)
(*                                                                         *)
(* The state is the table of submissions of the registered model, and the  *)
(* position and the locals of the request the admin is serving.  The       *)
(* export view (form_export) is cut at its calls of django_tablib's        *)
(* export, whose outcome the environment decides.                          *)
(***************************************************************************)
EXTENDS Integers, Sequences, FiniteSets, TLC

(* ------------------------------ bounds -------------------------------- *)

\* the longest field list of a submission
MaxFields == 3

\* the most submissions in the table
MaxEntries == 2

\* the labels a form field can carry: a plain one, one that ends in a
\* number, and the two that equal the names of the trailing columns
Labels == {"A", "A 2", "Language", "Submitted on"}

\* the exceptions django_tablib's export can raise
Exceptions == {"TypeError", "ValueError"}

\* who sends the requests
Users == {"staff", "superuser"}

\* the locale of a submission
Languages == {"en"}

\* the form a filter form can name
FormNames == {"contact"}

(* ------------------------- the registered admins ---------------------- *)

Base == "BaseFormSubmissionAdmin"

Admins == {"FormDataAdmin", "FormSubmissionAdmin"}

\* admin.site.register(model, admin)
ModelOf(cls) ==
    IF cls = "FormDataAdmin" THEN "formdata" ELSE "formsubmission"

AppLabel == "aldryn_forms"

\* the methods each class body defines
Defines(cls) ==
    CASE cls = Base ->
            {"has_add_permission", "get_data_for_display", "get_recipients",
             "get_recipients_for_display", "get_urls", "get_admin_url",
             "form_export"}
      [] cls = "FormDataAdmin" -> {"get_recipients"}
      [] cls = "FormSubmissionAdmin" -> {}
      [] OTHER -> {}

\* method resolution: the subclass, then BaseFormSubmissionAdmin, then
\* django's ModelAdmin
Resolve(cls, method) ==
    IF method \in Defines(cls) THEN cls
    ELSE IF method \in Defines(Base) THEN Base
    ELSE "ModelAdmin"

\* has_add_permission left to ModelAdmin: the user's add permission
has_add_permission_inherited(cls, req) == req.user = "superuser"

\* BaseFormSubmissionAdmin.has_add_permission, or the inherited
\* ModelAdmin.has_add_permission (the user's add permission) if no class
\* of the hierarchy defined it
has_add_permission(cls, req) ==
    IF Resolve(cls, "has_add_permission") = Base THEN FALSE
    ELSE req.user = "superuser"

\* get_admin_url without the model's name
get_admin_url_no_model(cls, name) == AppLabel \o "_" \o name

\* get_admin_url: "%s_%s_%s" % (app_label, model_name, name)
get_admin_url(cls, name) ==
    AppLabel \o "_" \o ModelOf(cls) \o "_" \o name

(* ----------------------------- submissions ---------------------------- *)

\* the value a visitor typed into field `position` (0-based) of
\* submission `id`: all values differ, and none is empty
Value(id, position) == "v" \o ToString(id) \o "." \o ToString(position)

RECURSIVE SeqsUpTo(_, _)
SeqsUpTo(S, n) ==
    IF n = 0 THEN {<<>>}
    ELSE LET shorter == SeqsUpTo(S, n - 1)
         IN  shorter \cup {Append(s, x) : s \in {t \in shorter : Len(t) = n - 1}, x \in S}

\* the field labels of a form
Layouts == SeqsUpTo(Labels, MaxFields)

\* the layouts one edit of the form away from `layout`: unchanged, its
\* first field removed (every later field moves up), a field added at the
\* end
Drift(layout) ==
    {layout}
    \cup (IF layout # <<>> THEN {Tail(layout)} ELSE {})
    \cup (IF Len(layout) < MaxFields
          THEN {Append(layout, l) : l \in Labels} ELSE {})

\* obj.get_form_data(): the ordered (label, value) pairs of a submission
get_form_data(obj) == obj.data

\* the submission a visitor sends with the form laid out as `layout`;
\* sent_at is the time of creation, later for every later submission
NewSubmission(id, layout) ==
    [data     |-> [i \in 1..Len(layout) |->
                      [label |-> layout[i], value |-> Value(id, i - 1)]],
     sent_at  |-> id,
     language |-> CHOOSE l \in Languages : TRUE,
     via      |-> "site"]

(* -------------------------- the header accessors ---------------------- *)

None == [none |-> TRUE]

\* list[position], position >= 0: the item, or IndexError past the end
GetItem(list, position) ==
    IF position < Len(list)
    THEN [exc |-> "none", item |-> list[position + 1]]
    ELSE [exc |-> "IndexError", item |-> None]

\* the except clause of _clean_data
clean_data_catches(exc) == exc = "IndexError"

\* _clean_data without the check of the label: `if field:`
_clean_data_unchecked(label, position, obj) ==
    LET got == GetItem(get_form_data(obj), position)
    IN  IF got.exc = "none"
        THEN [exc |-> "none", value |-> got.item.value]
        ELSE [exc |-> "none", value |-> ""]

\* clean_data(label, position)(obj): the closure's result, or the
\* exception that leaves it
_clean_data(label, position, obj) ==
    LET got   == GetItem(get_form_data(obj), position)
        field == IF got.exc = "none" THEN got.item ELSE None
    IN  IF got.exc # "none" /\ ~clean_data_catches(got.exc)
        THEN [exc |-> got.exc, value |-> ""]
        ELSE IF field # None /\ field.label = label
             THEN [exc |-> "none", value |-> field.value]
             ELSE [exc |-> "none", value |-> ""]

\* clean_data(label, position): the closure, as the two values it captures
clean_data(label, position) ==
    [callable |-> TRUE, label |-> label, position |-> position, attr |-> ""]

\* a header given as the name of an attribute of the submission
Attr(name) ==
    [callable |-> FALSE, label |-> "", position |-> 0, attr |-> name]

(* ------------------------------ SortedDict ---------------------------- *)

\* key in d
Contains(d, key) == \E i \in 1..Len(d) : d[i].key = key

\* d[key] = value: a key d has keeps its place, a new key goes last
SetItem(d, key, value) ==
    IF Contains(d, key)
    THEN [i \in 1..Len(d) |->
             IF d[i].key = key THEN [key |-> key, value |-> value] ELSE d[i]]
    ELSE Append(d, [key |-> key, value |-> value])

(* ----------------------------- the headers ---------------------------- *)

\* u'%s %s' % (label, n)
Format(label, n) == label \o " " \o ToString(n)

\* ugettext(message): no catalogue is active, the message itself
ugettext(message) == message

\* defaultdict(lambda: 1)
NoOccurrences == [l \in Labels |-> 1]

\* the loop of form_export over enumerate(fields), from `position` on
RECURSIVE header_loop(_, _, _, _)
header_loop(fields, position, headers, occurrences) ==
    IF position >= Len(fields) THEN headers
    ELSE LET field == fields[position + 1]
             seen  == Contains(headers, field.label)
             occ   == IF seen
                      THEN [occurrences EXCEPT ![field.label] = @ + 1]
                      ELSE occurrences
             label == IF seen THEN Format(field.label, occ[field.label])
                      ELSE field.label
         IN  header_loop(fields, position + 1,
                         SetItem(headers, label,
                                 clean_data(field.label, position)),
                         occ)

\* the headers form_export hands to the export
build_headers(fields) ==
    LET h0 == header_loop(fields, 0, <<>>, NoOccurrences)
        h1 == SetItem(h0, ugettext("Language"), Attr("language"))
    IN  SetItem(h1, ugettext("Submitted on"), Attr("sent_at"))

(* ---------------------------- the filter form ------------------------- *)

\* request.POST of a request without data
EmptyPOST == [empty |-> TRUE, errors |-> {}, matches |-> {}, form_name |-> ""]

\* the data a request can post: none, data the form rejects, or criteria
\* that select some of the `n` submissions of the table
Posts(n) ==
    {EmptyPOST}
    \cup {[empty |-> FALSE, errors |-> {"form_name"}, matches |-> {},
           form_name |-> ""]}
    \cup {[empty |-> FALSE, errors |-> {}, matches |-> m, form_name |-> f] :
             m \in SUBSET (1..n), f \in FormNames}

\* self.export_form(request.POST): bound to the empty data, whose
\* required field is missing
export_form_bound(POST) ==
    [is_bound |-> TRUE,
     errors   |-> IF POST.empty THEN {"form_name"} ELSE POST.errors,
     data     |-> POST]

\* self.export_form(request.POST or None): unbound without data
export_form(POST) ==
    [is_bound |-> ~POST.empty,
     errors   |-> IF POST.empty THEN {} ELSE POST.errors,
     data     |-> POST]

\* form.is_valid(): bound and free of errors
is_valid(form) == form.is_bound /\ form.errors = {}

\* form.get_queryset(): the submissions the criteria select
get_queryset(form) == form.data.matches

\* form.get_filename(): derived from the form the criteria name
get_filename(form) == form.data.form_name \o "-export"

(* ------------------------------ the queryset -------------------------- *)

\* entries.exists()
exists(entries) == entries # {}

\* entries.order_by('-sent_at')[0] of a queryset that is not empty
most_recent(table, entries) ==
    CHOOSE e \in entries :
        \A o \in entries : table[o].sent_at <= table[e].sent_at

(* ----------------------------- the export call ------------------------ *)

\* the partial without filename=filename
do_export_unnamed(keyword, entries, hdrs, fname, cls) ==
    [keyword  |-> keyword,
     type     |-> "xls",
     queryset |-> entries,
     model    |-> ModelOf(cls),
     headers  |-> hdrs,
     filename |-> ""]

\* do_export(<keyword>='xls'): the call of export the partial makes
do_export(keyword, entries, hdrs, fname, cls) ==
    [keyword  |-> keyword,
     type     |-> "xls",
     queryset |-> entries,
     model    |-> ModelOf(cls),
     headers  |-> hdrs,
     filename |-> fname]

\* a bare except around do_export(file_type='xls')
form_export_catches_all(exc) == TRUE

\* the except clause around do_export(file_type='xls')
form_export_catches(exc) == exc = "TypeError"

\* the cell of `obj` under a header: the accessor's result, or the
\* attribute the header names
Cell(header, obj) ==
    IF header.callable
    THEN _clean_data(header.label, header.position, obj)
    ELSE [exc   |-> "none",
          value |-> IF header.attr = "language" THEN obj.language
                    ELSE ToString(obj.sent_at)]

\* the rows export builds: every header applied to every entry
Rows(table, call) ==
    [e \in call.queryset |->
        [i \in 1..Len(call.headers) |-> Cell(call.headers[i].value, table[e])]]

\* the exceptions the accessors raise while the rows are built
RaisedInRows(table, call) ==
    {Cell(call.headers[i].value, table[e]).exc :
        e \in call.queryset, i \in 1..Len(call.headers)} \ {"none"}

(* ------------------------------ responses ----------------------------- *)

NoResponse == [kind |-> "none", detail |-> "", errors |-> {}]

\* redirect(to)
redirect(to) == [kind |-> "redirect", detail |-> to, errors |-> {}]

\* render_to_response(template, context) with context['errors']
render_to_response(template, errors) ==
    [kind |-> "render", detail |-> template, errors |-> errors]

\* the response export returns: the spreadsheet, as an attachment
ExportResponse(call) ==
    [kind |-> "export", detail |-> call.filename, errors |-> {}]

\* an exception that leaves the view
Raised(exc) == [kind |-> "exception", detail |-> exc, errors |-> {}]

\* the message message_user emits for an empty queryset
NoRecords == [level |-> "WARNING", text |-> "No records found"]

(* -------------------------------- state ------------------------------- *)

VARIABLES
    self,         \* the admin class the site serves
    db,           \* the table of its model: the submissions, oldest first
    pc,           \* "idle", "file_type", "format" or "done"
    request,      \* the request being served
    entries,      \* form_export's entries
    first_entry,  \* form_export's first_entry (0: not read)
    headers,      \* form_export's headers
    filename,     \* form_export's filename
    calls,        \* the calls of export made for the request
    outcomes,     \* how each finished call of export ended
    trace,        \* the collaborators form_export reached, in order
    messages,     \* the messages emitted for the request
    response,     \* the response, or the exception, that ends the request
    sheet         \* the rows of the exported spreadsheet

vars == <<self, db, pc, request, entries, first_entry, headers, filename,
          calls, outcomes, trace, messages, response, sheet>>

NoRequest == [view |-> "", user |-> "", POST |-> EmptyPOST]

Init ==
    /\ self \in Admins
    /\ db = <<>>
    /\ pc = "idle"
    /\ request = NoRequest
    /\ entries = {}
    /\ first_entry = 0
    /\ headers = <<>>
    /\ filename = ""
    /\ calls = <<>>
    /\ outcomes = <<>>
    /\ trace = <<>>
    /\ messages = <<>>
    /\ response = NoResponse
    /\ sheet = <<>>

(* ------------------------------ the site ------------------------------ *)

\* a visitor submits the form: the first submission with any layout, a
\* later one with the layout of the one before it, or one edit away
Submit(layout) ==
    /\ pc = "idle"
    /\ Len(db) < MaxEntries
    /\ layout \in (IF db = <<>> THEN Layouts
                   ELSE Drift([i \in 1..Len(db[Len(db)].data) |->
                                  db[Len(db)].data[i].label]))
    /\ db' = Append(db, NewSubmission(Len(db) + 1, layout))
    /\ UNCHANGED <<self, pc, request, entries, first_entry, headers, filename,
                   calls, outcomes, trace, messages, response, sheet>>

(* --------------------------- the admin's views ------------------------ *)

\* the add view of the admin: django asks has_add_permission, and answers
\* 403 unless it grants
AddRequest(user) ==
    LET req == [view |-> "add", user |-> user, POST |-> EmptyPOST]
    IN  /\ pc = "idle"
        /\ request' = req
        /\ pc' = "done"
        /\ IF has_add_permission(self, req) /\ Len(db) < MaxEntries
           THEN /\ db' = Append(db, [NewSubmission(Len(db) + 1, <<>>)
                                        EXCEPT !.via = "admin"])
                /\ response' = [kind |-> "added", detail |-> "", errors |-> {}]
           ELSE /\ db' = db
                /\ response' = [kind |-> "forbidden", detail |-> "403",
                                errors |-> {}]
        /\ UNCHANGED <<self, entries, first_entry, headers, filename, calls,
                       outcomes, trace, messages, sheet>>

\* form_export, up to its first call of export or to its return
FormExport(POST) ==
    LET req  == [view |-> "export", user |-> "staff", POST |-> POST]
        form == export_form(req.POST)
        qs   == get_queryset(form)
        fe   == most_recent(db, qs)
        hdrs == build_headers(get_form_data(db[fe]))
        name == get_filename(form)
    IN  /\ pc = "idle"
        /\ POST \in Posts(Len(db))
        /\ request' = req
        /\ IF is_valid(form)
           THEN IF exists(qs)
                THEN /\ entries' = qs
                     /\ filename' = name
                     /\ first_entry' = fe
                     /\ headers' = hdrs
                     /\ calls' = <<do_export("file_type", qs, hdrs, name, self)>>
                     /\ trace' = <<"is_valid", "get_queryset", "exists",
                                   "get_filename", "order_by", "get_form_data",
                                   "export">>
                     /\ pc' = "file_type"
                     /\ UNCHANGED <<messages, response>>
                ELSE /\ entries' = qs
                     /\ messages' = <<NoRecords>>
                     /\ response' =
                            redirect("admin:" \o get_admin_url(self, "export"))
                     /\ trace' = <<"is_valid", "get_queryset", "exists",
                                   "message_user", "redirect">>
                     /\ pc' = "done"
                     /\ UNCHANGED <<first_entry, headers, filename, calls>>
           ELSE /\ response' =
                       render_to_response("admin/aldryn_forms/export.html",
                                          form.errors)
                /\ trace' = <<"is_valid", "render_to_response">>
                /\ pc' = "done"
                /\ UNCHANGED <<entries, first_entry, headers, filename, calls,
                               messages>>
        /\ UNCHANGED <<self, db, outcomes, sheet>>

\* export(file_type='xls') returns its response
FileTypeReturns ==
    /\ pc = "file_type"
    /\ RaisedInRows(db, calls[1]) = {}
    /\ outcomes' = Append(outcomes, "returned")
    /\ response' = ExportResponse(calls[1])
    /\ sheet' = Rows(db, calls[1])
    /\ pc' = "done"
    /\ UNCHANGED <<self, db, request, entries, first_entry, headers, filename,
                   calls, trace, messages>>

\* export(file_type='xls') raises: the except clause makes the legacy
\* call, any other exception leaves form_export
FileTypeRaises(exc) ==
    /\ pc = "file_type"
    /\ exc \in Exceptions \cup RaisedInRows(db, calls[1])
    /\ outcomes' = Append(outcomes, exc)
    /\ IF form_export_catches(exc)
       THEN /\ calls' = Append(calls,
                               do_export("format", entries, headers, filename,
                                         self))
            /\ trace' = Append(trace, "export")
            /\ pc' = "format"
            /\ UNCHANGED response
       ELSE /\ response' = Raised(exc)
            /\ pc' = "done"
            /\ UNCHANGED <<calls, trace>>
    /\ UNCHANGED <<self, db, request, entries, first_entry, headers, filename,
                   messages, sheet>>

\* export(format='xls') returns its response
FormatReturns ==
    /\ pc = "format"
    /\ RaisedInRows(db, calls[2]) = {}
    /\ outcomes' = Append(outcomes, "returned")
    /\ response' = ExportResponse(calls[2])
    /\ sheet' = Rows(db, calls[2])
    /\ pc' = "done"
    /\ UNCHANGED <<self, db, request, entries, first_entry, headers, filename,
                   calls, trace, messages>>

\* export(format='xls') raises: nothing catches it
FormatRaises(exc) ==
    /\ pc = "format"
    /\ exc \in Exceptions \cup RaisedInRows(db, calls[2])
    /\ outcomes' = Append(outcomes, exc)
    /\ response' = Raised(exc)
    /\ pc' = "done"
    /\ UNCHANGED <<self, db, request, entries, first_entry, headers, filename,
                   calls, trace, messages, sheet>>

\* the response is sent, the locals of the view are gone
EndRequest ==
    /\ pc = "done"
    /\ pc' = "idle"
    /\ request' = NoRequest
    /\ entries' = {}
    /\ first_entry' = 0
    /\ headers' = <<>>
    /\ filename' = ""
    /\ calls' = <<>>
    /\ outcomes' = <<>>
    /\ trace' = <<>>
    /\ messages' = <<>>
    /\ response' = NoResponse
    /\ sheet' = <<>>
    /\ UNCHANGED <<self, db>>

Next ==
    \/ \E layout \in Layouts : Submit(layout)
    \/ \E user \in Users : AddRequest(user)
    \/ \E POST \in Posts(MaxEntries) : FormExport(POST)
    \/ FileTypeReturns
    \/ \E exc \in Exceptions : FileTypeRaises(exc)
    \/ FormatReturns
    \/ \E exc \in Exceptions : FormatRaises(exc)
    \/ EndRequest

Spec == Init /\ [][Next]_vars

(* ------------------------------ properties ---------------------------- *)

\* form_export has built its headers and called export
Exported == calls # <<>>

\* the fields of the reference submission
RefFields == get_form_data(db[first_entry])

\* the headers as the loop leaves them, before the trailing columns
LoopHeaders == header_loop(RefFields, 0, <<>>, NoOccurrences)

\* the form of the request being served
Form == export_form(request.POST)

\* the request being served is one of the export view
Exporting == request.view = "export"

\* which occurrence of its label the field at `position` (0-based) is
Occurrence(fields, position) ==
    Cardinality({q \in 0..position :
                    fields[q + 1].label = fields[position + 1].label})

\* how often the label of the field at `position` occurs
Shared(fields, position) ==
    Cardinality({q \in 1..Len(fields) :
                    fields[q].label = fields[position + 1].label})

\* C1: the headers handed to export are as many as the fields of the
\* reference submission, plus two
C1_HeaderCount ==
    Exported => Len(calls[1].headers) = Len(RefFields) + 2

\* C2: the loop gives every field of the reference submission a header of
\* its own (none overwrites another), and of the fields that share a label
\* the first keeps the label and the k-th gets "<label> k"
C2_DistinctHeaders ==
    Exported =>
        /\ Len(LoopHeaders) = Len(RefFields)
        /\ \A p \in 0..(Len(RefFields) - 1) :
              Shared(RefFields, p) > 1 =>
                 LET l == RefFields[p + 1].label
                     k == Occurrence(RefFields, p)
                 IN  \E i \in 1..Len(LoopHeaders) :
                        /\ LoopHeaders[i].key =
                              (IF k = 1 THEN l ELSE Format(l, k))
                        /\ LoopHeaders[i].value = clean_data(l, p)

\* C3: an accessor applied to a submission yields the value of the field
\* at its position if that field carries its label, the empty value if
\* the field is missing or labelled otherwise, and never raises; so do
\* the cells of the exported sheet
C3_AccessorBlankOnDrift ==
    LET Expected(h, obj) ==
            LET d == obj.data
            IN  [exc   |-> "none",
                 value |-> IF h.position < Len(d)
                              /\ d[h.position + 1].label = h.label
                           THEN d[h.position + 1].value ELSE ""]
    IN  /\ \A i \in 1..Len(headers) : \A e \in 1..Len(db) :
              headers[i].value.callable =>
                 _clean_data(headers[i].value.label,
                             headers[i].value.position, db[e])
                    = Expected(headers[i].value, db[e])
        /\ response.kind = "export" =>
              \A e \in entries : \A i \in 1..Len(headers) :
                 headers[i].value.callable =>
                    sheet[e][i] = Expected(headers[i].value, db[e])

\* an exported sheet holds an empty cell for a submission whose field at
\* the accessor's position carries another label
C3_Witness ==
    /\ pc = "done"
    /\ response.kind = "export"
    /\ \E e \in entries : \E i \in 1..Len(headers) :
          LET h == headers[i].value
          IN  /\ h.callable
              /\ h.position < Len(db[e].data)
              /\ db[e].data[h.position + 1].label # h.label
              /\ db[e].data[h.position + 1].value # ""
              /\ sheet[e][i].value = ""

\* C4: a valid form whose queryset is empty ends in the warning and the
\* redirect to the export URL of the same admin; export is not called and
\* no reference submission is read
C4_EmptyQuerysetRedirects ==
    (pc = "done" /\ Exporting /\ ~request.POST.empty
        /\ request.POST.errors = {} /\ request.POST.matches = {}) =>
        /\ calls = <<>>
        /\ outcomes = <<>>
        /\ first_entry = 0
        /\ headers = <<>>
        /\ \A i \in 1..Len(trace) :
              trace[i] \notin {"export", "order_by", "get_form_data"}
        /\ messages = <<[level |-> "WARNING", text |-> "No records found"]>>
        /\ response.kind = "redirect"
        /\ response.detail =
              (IF self = "FormDataAdmin"
               THEN "admin:aldryn_forms_formdata_export"
               ELSE "admin:aldryn_forms_formsubmission_export")

\* the table holds submissions, the criteria match none, and the request
\* ended in the redirect
C4_Witness ==
    /\ pc = "done"
    /\ Exporting
    /\ db # <<>>
    /\ is_valid(Form)
    /\ entries = {}
    /\ response.kind = "redirect"
    /\ messages # <<>>

\* C6: has_add_permission is the one of BaseFormSubmissionAdmin for both
\* admins and refuses every request; every add request is answered 403,
\* and no submission of the table was created through the admin
C6_NoAddThroughAdmin ==
    /\ \A cls \in Admins :
          /\ Resolve(cls, "has_add_permission") = Base
          /\ \A u \in Users :
                ~has_add_permission(cls, [view |-> "add", user |-> u,
                                          POST |-> EmptyPOST])
    /\ \A i \in 1..Len(db) : db[i].via = "site"
    /\ (pc = "done" /\ request.view = "add") => response.kind = "forbidden"

\* an add request of the superuser was refused
C6_Witness ==
    /\ pc = "done"
    /\ request.view = "add"
    /\ request.user = "superuser"
    /\ response.kind = "forbidden"
    /\ db # <<>>

\* C7: a valid form with a matching record calls export with the xls
\* type, the filtered queryset, the headers built from its most recent
\* record and the form's filename; the request ends with the response
\* export returned, never with the re-rendered form or the redirect
C7_ExportResponse ==
    (pc # "idle" /\ Exporting /\ ~request.POST.empty
        /\ request.POST.errors = {} /\ request.POST.matches # {}) =>
        LET m   == request.POST.matches
            ref == CHOOSE e \in m : \A o \in m : o <= e
        IN  /\ calls # <<>>
            /\ \A i \in 1..Len(calls) :
                  /\ calls[i].type = "xls"
                  /\ calls[i].queryset = m
                  /\ calls[i].model = ModelOf(self)
                  /\ calls[i].headers = build_headers(db[ref].data)
                  /\ calls[i].filename = request.POST.form_name \o "-export"
                  /\ calls[i].filename # ""
            /\ messages = <<>>
            /\ response.kind \notin {"render", "redirect"}
            /\ \A i \in 1..Len(trace) :
                  trace[i] \notin {"render_to_response", "redirect",
                                   "message_user"}
            /\ (pc = "done" /\ outcomes[Len(outcomes)] = "returned") =>
                  /\ response.kind = "export"
                  /\ response.detail = calls[Len(calls)].filename

\* the request ended with the response of export for a queryset of two
C7_Witness ==
    /\ pc = "done"
    /\ Exporting
    /\ is_valid(Form)
    /\ Cardinality(entries) = 2
    /\ response.kind = "export"
    /\ response.detail # ""

\* C8: export is called with file_type first; with format only after the
\* first call raised TypeError, and then always; at most twice; any other
\* exception of the first call and any exception of the second leave
\* form_export
C8_FallbackOrder ==
    /\ Len(calls) <= 2
    /\ Len(outcomes) <= Len(calls)
    /\ calls # <<>> => calls[1].keyword = "file_type"
    /\ Len(calls) = 2 <=> (outcomes # <<>> /\ outcomes[1] = "TypeError")
    /\ Len(calls) = 2 => calls[2].keyword = "format"
    /\ (outcomes # <<>> /\ outcomes[1] \notin {"returned", "TypeError"}) =>
          /\ pc = "done"
          /\ response = [kind |-> "exception", detail |-> outcomes[1],
                         errors |-> {}]
    /\ (Len(outcomes) = 2 /\ outcomes[2] # "returned") =>
          /\ pc = "done"
          /\ response = [kind |-> "exception", detail |-> outcomes[2],
                         errors |-> {}]
    /\ (pc = "done" /\ Exporting /\ response.kind = "exception") =>
          /\ outcomes # <<>>
          /\ response.detail = outcomes[Len(outcomes)]

\* both calls were made and the second raised
C8_Witness ==
    /\ pc = "done"
    /\ Len(calls) = 2
    /\ outcomes[1] = "TypeError"
    /\ response.kind = "exception"

\* C9: a form that is not valid, the unbound one of a request without
\* data included, ends in the re-rendered template with the form's errors
\* and reaches nothing else; and which of the three ways an export request
\* ends is decided by the form's validity and the queryset's emptiness
C9_InvalidFormRerenders ==
    (pc = "done" /\ Exporting) =>
        LET POST     == request.POST
            valid    == ~POST.empty /\ POST.errors = {}
            nonempty == POST.matches # {}
        IN  /\ ~valid =>
                  /\ response =
                        [kind   |-> "render",
                         detail |-> "admin/aldryn_forms/export.html",
                         errors |-> IF POST.empty THEN {} ELSE POST.errors]
                  /\ trace = <<"is_valid", "render_to_response">>
                  /\ entries = {}
                  /\ first_entry = 0
                  /\ calls = <<>>
                  /\ messages = <<>>
            /\ response.kind = "render" <=> ~valid
            /\ response.kind = "redirect" <=> (valid /\ ~nonempty)
            /\ calls # <<>> <=> (valid /\ nonempty)
            /\ response.kind \in {"export", "exception"} <=> calls # <<>>

\* a request whose data the form rejects got the form back with errors
C9_Witness ==
    /\ pc = "done"
    /\ Exporting
    /\ ~request.POST.empty
    /\ response.kind = "render"
    /\ response.errors # {}

\* C5: the last two headers handed to export are 'Language' -> 'language'
\* and 'Submitted on' -> 'sent_at', in this order
C5_TrailingColumnsLast ==
    Exported =>
        LET h == calls[1].headers
            n == Len(h)
        IN  /\ n >= 2
            /\ h[n - 1] = [key |-> "Language", value |-> Attr("language")]
            /\ h[n] = [key |-> "Submitted on", value |-> Attr("sent_at")]

\* C10: after the loop the accessors are, in field order, the ones of the
\* fields of the reference submission, each bound to its field's label
\* and position, and applied to the reference submission they yield its
\* values in field order
C10_AccessorsReadReference ==
    Exported =>
        /\ Len(LoopHeaders) = Len(RefFields)
        /\ \A i \in 1..Len(LoopHeaders) :
              i <= Len(RefFields) =>
                 /\ LoopHeaders[i].value =
                        clean_data(RefFields[i].label, i - 1)
                 /\ _clean_data(LoopHeaders[i].value.label,
                                LoopHeaders[i].value.position,
                                db[first_entry]).value = RefFields[i].value

====
